---- MODULE Spec2Model ----
(***************************************************************************)
(* Task / Done resource model of the fastapi-example backend.              *)
(*                                                                         *)
(* The two handlers of api/routers/done.py (mark_task_as_done and          *)
(* unmark_task_as_done) are modelled statement by statement: every await   *)
(* is a suspension point, so the lookup (get_done) and the write           *)
(* (create_done / delete_done) of one request are two separate steps that  *)
(* other requests may interleave with.  The persistence functions          *)
(* (api.cruds.done, api.cruds.task) and the task router are not part of    *)
(* the sources at hand; they are modelled from the written specification   *)
(* and from the tests that call them.                                      *)
(***************************************************************************)
EXTENDS Integers, Sequences, FiniteSets, TLC

VARIABLES
    tasks,       \* the tasks table: sequence of [id, title] in insertion order
    dones,       \* the done table: set of rows [id, task_id]
    req,         \* the requests being served, one record per request slot
    sessions,    \* the persistence sessions that are open
    created,     \* history: the ids that POST /tasks has handed out
    lastOk,      \* history: per task_id, the last done-operation answered 200
    scen         \* history: the newest task and its progress through Scenario

vars == <<tasks, dones, req, sessions, created, lastOk, scen>>

----------------------------------------------------------------------------
(* Bounds *)

NumReqs == 2      \* request slots, i.e. requests that can be in flight at once
MaxTasks == 2     \* task ids 1..MaxTasks; at most MaxTasks Task rows

Reqs == 1..NumReqs
TaskIds == 1..MaxTasks
Titles == {"A", "B"}

----------------------------------------------------------------------------
(* HTTP status codes and details used by the handlers *)

HTTP_200_OK == 200
HTTP_400_BAD_REQUEST == 400
HTTP_404_NOT_FOUND == 404

DoneAlreadyExists == "Done already exists"
DoneNotFound == "Done not found"
TaskNotFound == "Task not found"
UnchiDetail == "unchi~^"

----------------------------------------------------------------------------
(* Values *)

\* Python's None, and the two other shapes a lookup result can have.
None == [kind |-> "None"]
DoneRow(id, task_id) == [kind |-> "Done", id |-> id, task_id |-> task_id]
IsInt(v) == v.kind = "int"

\* A request slot with no request in it.  A slot holds the request's
\* position (pc), its operation and path parameter, its session db (0: none),
\* the handler's local variable done, the status code, error detail and task
\* title of its response, and how many lookups and writes it has issued.
Idle ==
    [pc |-> "idle", op |-> "none", task_id |-> 0, db |-> 0, done |-> None,
     status |-> 0, detail |-> "", title |-> "", lookups |-> 0, writes |-> 0]

\* The slot of a request that has been answered.
Responded(slot, status, detail) ==
    [slot EXCEPT !.pc = "responded", !.status = status, !.detail = detail]

\* The slot of a request that has been answered after one write to the store.
Written(slot, status, detail) ==
    [Responded(slot, status, detail) EXCEPT !.writes = slot.writes + 1]

\* The slot of a task-router request, which is answered in one step.
TaskResponse(op, task_id, db, status, detail, title) ==
    [Idle EXCEPT !.pc = "responded", !.op = op, !.task_id = task_id, !.db = db,
                 !.status = status, !.detail = detail, !.title = title]

----------------------------------------------------------------------------
(* Sessions: Depends(get_db) *)

\* Mutant: a session that is open is handed to the next request as well.
get_db_shared ==
    IF sessions = {} THEN 1 ELSE CHOOSE id \in sessions : TRUE

\* get_db / get_test_db: `async with async_session() as session: yield
\* session`.  The session maker builds a new session on every call; the
\* smallest id that no open session carries stands for the new one.
get_db ==
    CHOOSE id \in 1..(Cardinality(sessions) + 1) : id \notin sessions

\* The session of a request is closed when the request is torn down.
close_db(db) == sessions \ {db}

----------------------------------------------------------------------------
(* Persistence layer: api.cruds.done *)

\* The rows of a done table ds that belong to task_id.
RowsIn(ds, task_id) == {d \in ds : d.task_id = task_id}

\* The rows of the done table that belong to task_id.
RowsOf(task_id) == RowsIn(dones, task_id)

\* get_done(db, task_id): the possible results of the lookup in the current
\* store: None when no row matches, otherwise one matching row.
get_done(task_id) ==
    IF RowsOf(task_id) = {} THEN {None} ELSE RowsOf(task_id)

\* The id the store gives a new Done row.  It is an id no row carries and no
\* request still holds in a fetched record; the smallest such id stands for
\* any fresh one.
NewDoneId ==
    LET used == {d.id : d \in dones}
                    \cup {req[r].done.id : r \in {q \in Reqs : req[q].done # None}}
    IN  CHOOSE id \in 1..(Cardinality(used) + 1) : id \notin used

\* create_done(db, task_id): the store after inserting a row for task_id.
\* The store has no uniqueness constraint on task_id.
create_done(task_id) == dones \cup {DoneRow(NewDoneId, task_id)}

\* delete_done(db, original): the store after deleting the fetched record.
delete_done(original) == dones \ {original}

----------------------------------------------------------------------------
(* Persistence layer: api.cruds.task *)

TaskRow(id, title) == [id |-> id, title |-> title]

\* The ids of the Task rows.
TaskIdsIn(ts) == {ts[i].id : i \in 1..Len(ts)}

\* create_task: append a row with the next id.
create_task(title) == Append(tasks, TaskRow(Len(tasks) + 1, title))

\* Mutant: the update is issued without its WHERE clause.
update_task_all(id, title) ==
    [i \in 1..Len(tasks) |-> TaskRow(tasks[i].id, title)]

\* update_task: overwrite the title of the row with this id.
update_task(id, title) ==
    [i \in 1..Len(tasks) |->
        IF tasks[i].id = id THEN TaskRow(tasks[i].id, title) ELSE tasks[i]]

\* Mutant: the tasks are joined to their Done rows with an inner join, so
\* only the tasks that have a marker are listed.
get_tasks_with_done_inner ==
    LET marked == SelectSeq(tasks, LAMBDA t : \E d \in dones : d.task_id = t.id)
    IN  [i \in 1..Len(marked) |->
            [id |-> marked[i].id, title |-> marked[i].title, done |-> TRUE]]

\* get_tasks_with_done: every task with its derived done flag.
get_tasks_with_done ==
    [i \in 1..Len(tasks) |->
        [id |-> tasks[i].id, title |-> tasks[i].title,
         done |-> \E d \in dones : d.task_id = tasks[i].id]]

----------------------------------------------------------------------------
Init ==
    /\ tasks = <<>>
    /\ dones = {}
    /\ req = [r \in Reqs |-> Idle]
    /\ sessions = {}
    /\ created = {}
    /\ lastOk = [t \in TaskIds |-> "none"]
    /\ scen = [task_id |-> 0, step |-> 0]

----------------------------------------------------------------------------
(* History bookkeeping (not program state) *)

\* test_done_flg: PUT, PUT, DELETE, DELETE on the done resource of the task
\* just created, and the status codes the test asserts.
Scenario == <<"mark", "mark", "unmark", "unmark">>
Expected == <<HTTP_200_OK, HTTP_400_BAD_REQUEST, HTTP_200_OK, HTTP_404_NOT_FOUND>>

\* scen after task_id has been answered one more done request op: the step
\* advances while the requests answered on the newest task follow Scenario,
\* and tracking stops (task_id 0) at the first request that departs from it.
ScenAfter(task_id, op) ==
    IF scen.task_id # task_id THEN scen
    ELSE IF scen.step < Len(Scenario) /\ Scenario[scen.step + 1] = op
    THEN [scen EXCEPT !.step = scen.step + 1]
    ELSE [task_id |-> 0, step |-> 0]

\* A done request on task_id was answered with status.
Answered(task_id, op, status) ==
    /\ lastOk' = IF status = HTTP_200_OK
                 THEN [lastOk EXCEPT ![task_id] = op]
                 ELSE lastOk
    /\ scen' = ScenAfter(task_id, op)

\* Requests on task_id that are between their begin and their response.
InFlight(task_id) ==
    {r \in Reqs : req[r].pc \in {"lookup", "decide"} /\ req[r].task_id = task_id}

----------------------------------------------------------------------------
(* The done router: api/routers/done.py *)

\* A PUT or DELETE /tasks/{task_id}/done request arrives; the framework
\* resolves Depends(get_db) and enters the handler.
BeginDone(r, op, task_id) ==
    /\ req[r].pc = "idle"
    /\ req' = [req EXCEPT ![r] =
                  [Idle EXCEPT !.pc = "lookup", !.op = op, !.task_id = task_id,
                               !.db = get_db]]
    /\ sessions' = sessions \cup {get_db}
    /\ UNCHANGED <<tasks, dones, created, lastOk, scen>>

\* done = await done_crud.get_done(db, task_id=task_id)   (both handlers)
Lookup(r) ==
    /\ req[r].pc = "lookup"
    /\ \E d \in get_done(req[r].task_id) :
          req' = [req EXCEPT ![r].pc = "decide", ![r].done = d,
                             ![r].lookups = req[r].lookups + 1]
    /\ UNCHANGED <<tasks, dones, sessions, created, lastOk, scen>>

\* Mutant: the `if done is not None` check of mark is dropped.
MarkRejectsNever(done) == FALSE

\* mark_task_as_done: `if done is not None`
MarkRejects(done) == done # None

\* Mutant: mark checks and creates in one atomic conditional write on the
\* store as it is now, instead of deciding on its own earlier lookup.
MarkDecideRecheck(r) ==
    /\ req[r].pc = "decide"
    /\ req[r].op = "mark"
    /\ IF RowsOf(req[r].task_id) # {}
       THEN /\ req' = [req EXCEPT ![r] =
                          Responded(req[r], HTTP_400_BAD_REQUEST, DoneAlreadyExists)]
            /\ Answered(req[r].task_id, "mark", HTTP_400_BAD_REQUEST)
            /\ UNCHANGED dones
       ELSE /\ dones' = create_done(req[r].task_id)
            /\ req' = [req EXCEPT ![r] = Written(req[r], HTTP_200_OK, "")]
            /\ Answered(req[r].task_id, "mark", HTTP_200_OK)
    /\ UNCHANGED <<tasks, sessions, created>>

\* Mutant: mark refuses a task_id that has no Task row.
MarkDecideChecksTask(r) ==
    /\ req[r].pc = "decide"
    /\ req[r].op = "mark"
    /\ IF req[r].task_id \notin TaskIdsIn(tasks)
       THEN /\ req' = [req EXCEPT ![r] =
                          Responded(req[r], HTTP_404_NOT_FOUND, TaskNotFound)]
            /\ Answered(req[r].task_id, "mark", HTTP_404_NOT_FOUND)
            /\ UNCHANGED dones
       ELSE IF MarkRejects(req[r].done)
       THEN /\ req' = [req EXCEPT ![r] =
                          Responded(req[r], HTTP_400_BAD_REQUEST, DoneAlreadyExists)]
            /\ Answered(req[r].task_id, "mark", HTTP_400_BAD_REQUEST)
            /\ UNCHANGED dones
       ELSE /\ dones' = create_done(req[r].task_id)
            /\ req' = [req EXCEPT ![r] = Written(req[r], HTTP_200_OK, "")]
            /\ Answered(req[r].task_id, "mark", HTTP_200_OK)
    /\ UNCHANGED <<tasks, sessions, created>>

\* Mutant: a mark whose lookup found a marker looks up once more before it
\* answers.
MarkDecideRetry(r) ==
    /\ req[r].pc = "decide"
    /\ req[r].op = "mark"
    /\ IF MarkRejects(req[r].done)
       THEN IF req[r].lookups < 2
            THEN /\ req' = [req EXCEPT ![r].pc = "lookup"]
                 /\ UNCHANGED <<dones, lastOk, scen>>
            ELSE /\ req' = [req EXCEPT ![r] =
                               Responded(req[r], HTTP_400_BAD_REQUEST,
                                         DoneAlreadyExists)]
                 /\ Answered(req[r].task_id, "mark", HTTP_400_BAD_REQUEST)
                 /\ UNCHANGED dones
       ELSE /\ dones' = create_done(req[r].task_id)
            /\ req' = [req EXCEPT ![r] = Written(req[r], HTTP_200_OK, "")]
            /\ Answered(req[r].task_id, "mark", HTTP_200_OK)
    /\ UNCHANGED <<tasks, sessions, created>>

\* mark_task_as_done after the lookup: raise 400, or create and return.
MarkDecide(r) ==
    /\ req[r].pc = "decide"
    /\ req[r].op = "mark"
    /\ IF MarkRejects(req[r].done)
       THEN /\ req' = [req EXCEPT ![r] =
                          Responded(req[r], HTTP_400_BAD_REQUEST, DoneAlreadyExists)]
            /\ Answered(req[r].task_id, "mark", HTTP_400_BAD_REQUEST)
            /\ UNCHANGED dones
       ELSE /\ dones' = create_done(req[r].task_id)
            /\ req' = [req EXCEPT ![r] = Written(req[r], HTTP_200_OK, "")]
            /\ Answered(req[r].task_id, "mark", HTTP_200_OK)
    /\ UNCHANGED <<tasks, sessions, created>>

\* Mutant: the guard tests for None instead of for an int.
UnmarkGuardNone(done) == done = None

\* unmark_task_as_done: `if type(done) is int`
UnmarkGuard(done) == IsInt(done)

\* Mutant: the `if done is None` check of unmark is dropped.
UnmarkRejectsNever(done) == FALSE

\* unmark_task_as_done: `if done is None`
UnmarkRejects(done) == done = None

\* Mutant: unmark answers without calling delete_done.
UnmarkDecideNoDelete(r) ==
    /\ req[r].pc = "decide"
    /\ req[r].op = "unmark"
    /\ IF UnmarkRejects(req[r].done)
       THEN /\ req' = [req EXCEPT ![r] =
                          Responded(req[r], HTTP_404_NOT_FOUND, DoneNotFound)]
            /\ Answered(req[r].task_id, "unmark", HTTP_404_NOT_FOUND)
       ELSE /\ req' = [req EXCEPT ![r] = Responded(req[r], HTTP_200_OK, "")]
            /\ Answered(req[r].task_id, "unmark", HTTP_200_OK)
    /\ UNCHANGED <<tasks, dones, sessions, created>>

\* Mutant: unmark decides on the store as it is now and deletes by task_id,
\* instead of deciding on its own earlier lookup.
UnmarkDecideByTaskId(r) ==
    /\ req[r].pc = "decide"
    /\ req[r].op = "unmark"
    /\ IF RowsOf(req[r].task_id) = {}
       THEN /\ req' = [req EXCEPT ![r] =
                          Responded(req[r], HTTP_404_NOT_FOUND, DoneNotFound)]
            /\ Answered(req[r].task_id, "unmark", HTTP_404_NOT_FOUND)
            /\ UNCHANGED dones
       ELSE /\ dones' = dones \ RowsOf(req[r].task_id)
            /\ req' = [req EXCEPT ![r] = Written(req[r], HTTP_200_OK, "")]
            /\ Answered(req[r].task_id, "unmark", HTTP_200_OK)
    /\ UNCHANGED <<tasks, sessions, created>>

\* Mutant: the delete is issued without its WHERE clause.
UnmarkDecideDeleteAll(r) ==
    /\ req[r].pc = "decide"
    /\ req[r].op = "unmark"
    /\ IF UnmarkRejects(req[r].done)
       THEN /\ req' = [req EXCEPT ![r] =
                          Responded(req[r], HTTP_404_NOT_FOUND, DoneNotFound)]
            /\ Answered(req[r].task_id, "unmark", HTTP_404_NOT_FOUND)
            /\ UNCHANGED dones
       ELSE /\ dones' = {}
            /\ req' = [req EXCEPT ![r] = Written(req[r], HTTP_200_OK, "")]
            /\ Answered(req[r].task_id, "unmark", HTTP_200_OK)
    /\ UNCHANGED <<tasks, sessions, created>>

\* unmark_task_as_done after the lookup: raise 404, or delete and return.
UnmarkDecide(r) ==
    /\ req[r].pc = "decide"
    /\ req[r].op = "unmark"
    /\ IF UnmarkGuard(req[r].done)
       THEN /\ req' = [req EXCEPT ![r] =
                          Responded(req[r], HTTP_404_NOT_FOUND, UnchiDetail)]
            /\ Answered(req[r].task_id, "unmark", HTTP_404_NOT_FOUND)
            /\ UNCHANGED dones
       ELSE IF UnmarkRejects(req[r].done)
       THEN /\ req' = [req EXCEPT ![r] =
                          Responded(req[r], HTTP_404_NOT_FOUND, DoneNotFound)]
            /\ Answered(req[r].task_id, "unmark", HTTP_404_NOT_FOUND)
            /\ UNCHANGED dones
       ELSE /\ dones' = delete_done(req[r].done)
            /\ req' = [req EXCEPT ![r] = Written(req[r], HTTP_200_OK, "")]
            /\ Answered(req[r].task_id, "unmark", HTTP_200_OK)
    /\ UNCHANGED <<tasks, sessions, created>>

\* The response is out; the request's session is closed and its slot freed.
Finish(r) ==
    /\ req[r].pc = "responded"
    /\ req' = [req EXCEPT ![r] = Idle]
    /\ sessions' = close_db(req[r].db)
    /\ UNCHANGED <<tasks, dones, created, lastOk, scen>>

----------------------------------------------------------------------------
(* The task router (POST /tasks, GET /tasks, PUT /tasks/{id}) *)

\* POST /tasks {title}: 200 with the created task.
CreateTask(r, title) ==
    /\ req[r].pc = "idle"
    /\ Len(tasks) < MaxTasks
    /\ tasks' = create_task(title)
    /\ req' = [req EXCEPT ![r] =
                  TaskResponse("create", Len(tasks) + 1, get_db, HTTP_200_OK, "", title)]
    /\ scen' = IF RowsOf(Len(tasks) + 1) = {}
               THEN [task_id |-> Len(tasks) + 1, step |-> 0]
               ELSE [task_id |-> 0, step |-> 0]
    /\ created' = created \cup {Len(tasks) + 1}
    /\ sessions' = sessions \cup {get_db}
    /\ UNCHANGED <<dones, lastOk>>

\* GET /tasks: 200; the body is get_tasks_with_done.
ListTasks(r) ==
    /\ req[r].pc = "idle"
    /\ req' = [req EXCEPT ![r] =
                  TaskResponse("list", 0, get_db, HTTP_200_OK, "", "")]
    /\ sessions' = sessions \cup {get_db}
    /\ UNCHANGED <<tasks, dones, created, lastOk, scen>>

\* PUT /tasks/{id} {title}: 404 when the id is absent, else 200 with the
\* updated task.
UpdateTask(r, id, title) ==
    /\ req[r].pc = "idle"
    /\ IF id \notin TaskIdsIn(tasks)
       THEN /\ req' = [req EXCEPT ![r] =
                          TaskResponse("update", id, get_db, HTTP_404_NOT_FOUND, TaskNotFound, "")]
            /\ UNCHANGED tasks
       ELSE /\ tasks' = update_task(id, title)
            /\ req' = [req EXCEPT ![r] =
                          TaskResponse("update", id, get_db, HTTP_200_OK, "", title)]
    /\ sessions' = sessions \cup {get_db}
    /\ UNCHANGED <<dones, created, lastOk, scen>>

----------------------------------------------------------------------------
(* Specifications *)

\* Requests run as independent units of work and interleave at every await.
Next ==
    \/ \E r \in Reqs, op \in {"mark", "unmark"}, t \in TaskIds :
          BeginDone(r, op, t)
    \/ \E r \in Reqs : Lookup(r)
    \/ \E r \in Reqs : MarkDecide(r)
    \/ \E r \in Reqs : UnmarkDecide(r)
    \/ \E r \in Reqs : Finish(r)
    \/ \E r \in Reqs, title \in Titles : CreateTask(r, title)
    \/ \E r \in Reqs : ListTasks(r)
    \/ \E r \in Reqs, id \in TaskIds, title \in Titles : UpdateTask(r, id, title)

Spec == Init /\ [][Next]_vars

\* The requests on one task_id run one at a time: a done request begins only
\* when no other request on its task_id is in flight.
BeginDoneSeq(r, op, task_id) ==
    /\ InFlight(task_id) = {}
    /\ BeginDone(r, op, task_id)

NextSeq ==
    \/ \E r \in Reqs, op \in {"mark", "unmark"}, t \in TaskIds :
          BeginDoneSeq(r, op, t)
    \/ \E r \in Reqs : Lookup(r)
    \/ \E r \in Reqs : MarkDecide(r)
    \/ \E r \in Reqs : UnmarkDecide(r)
    \/ \E r \in Reqs : Finish(r)
    \/ \E r \in Reqs, title \in Titles : CreateTask(r, title)
    \/ \E r \in Reqs : ListTasks(r)
    \/ \E r \in Reqs, id \in TaskIds, title \in Titles : UpdateTask(r, id, title)

SpecSeq == Init /\ [][NextSeq]_vars

\* The event loop resumes every coroutine that is ready, and the framework
\* tears every answered request down: a request that has entered its handler
\* is not left waiting forever.  The arrival of requests is not forced.
Fairness ==
    \A r \in Reqs :
        /\ WF_vars(Lookup(r))
        /\ WF_vars(MarkDecide(r))
        /\ WF_vars(UnmarkDecide(r))
        /\ WF_vars(Finish(r))

\* The done router alone: mark and unmark requests on any task_id.
NextDone ==
    \/ \E r \in Reqs, op \in {"mark", "unmark"}, t \in TaskIds :
          BeginDone(r, op, t)
    \/ \E r \in Reqs : Lookup(r)
    \/ \E r \in Reqs : MarkDecide(r)
    \/ \E r \in Reqs : UnmarkDecide(r)
    \/ \E r \in Reqs : Finish(r)

FairSpec == Init /\ [][NextDone]_vars /\ Fairness

----------------------------------------------------------------------------
(* Claims *)

\* The step taken is request r of operation op leaving its decide position.
Decides(r, op) ==
    /\ req[r].pc = "decide"
    /\ req[r].op = op
    /\ req'[r] # req[r]

\* C1: in every reachable state, under any interleaving of mark and unmark
\* requests, each task_id has zero or one Done rows.
AtMostOneDonePerTask ==
    \A t \in TaskIds : Cardinality(RowsOf(t)) <= 1

\* C2: a mark request answered after a successful mark on the same task_id,
\* with no successful unmark in between, is answered 400: two such marks
\* never both succeed.
NoTwoMarksSucceed ==
    [][\A r \in Reqs :
          Decides(r, "mark") /\ lastOk[req[r].task_id] = "mark"
              => req'[r].status = HTTP_400_BAD_REQUEST]_vars

\* C3: an unmark request answered after a successful unmark on the same
\* task_id, with no successful mark in between, is answered 404: two such
\* unmarks never both succeed.
NoTwoUnmarksSucceed ==
    [][\A r \in Reqs :
          Decides(r, "unmark") /\ lastOk[req[r].task_id] = "unmark"
              => req'[r].status = HTTP_404_NOT_FOUND]_vars

\* C4: a mark whose lookup returned an existing marker is answered 400 with
\* detail "Done already exists", creates nothing and leaves the Done rows
\* unchanged.
MarkOnMarkerIsConflict ==
    [][\A r \in Reqs :
          Decides(r, "mark") /\ req[r].done # None
              => /\ req'[r].pc = "responded"
                 /\ req'[r].status = HTTP_400_BAD_REQUEST
                 /\ req'[r].detail = DoneAlreadyExists
                 /\ dones' = dones]_vars

\* C4 witness: a mark that found the marker of its task has been answered 400.
MarkConflictAnswered ==
    \E r \in Reqs :
        /\ req[r].pc = "responded"
        /\ req[r].op = "mark"
        /\ req[r].done \in dones
        /\ req[r].done.task_id = req[r].task_id
        /\ req[r].status = HTTP_400_BAD_REQUEST

\* C5: an unmark whose lookup returned absent is answered 404 with detail
\* "Done not found", deletes nothing and leaves the Done rows unchanged.
UnmarkOnAbsentIsNotFound ==
    [][\A r \in Reqs :
          Decides(r, "unmark") /\ req[r].done = None
              => /\ req'[r].pc = "responded"
                 /\ req'[r].status = HTTP_404_NOT_FOUND
                 /\ req'[r].detail = DoneNotFound
                 /\ dones' = dones]_vars

\* C5 witness: an unmark that found no marker has been answered 404 while the
\* store holds markers of other tasks.
UnmarkNotFoundAnswered ==
    \E r \in Reqs :
        /\ req[r].pc = "responded"
        /\ req[r].op = "unmark"
        /\ req[r].done = None
        /\ req[r].status = HTTP_404_NOT_FOUND
        /\ dones # {}

ListMatchesStore ==
    LET out == get_tasks_with_done
    IN  /\ {out[i].id : i \in 1..Len(out)} = created
        /\ Len(out) = Cardinality(created)
        /\ \A i \in 1..Len(out) :
              /\ out[i].done <=> RowsOf(out[i].id) # {}
              /\ lastOk[out[i].id] = "none" => ~out[i].done

\* C7 witness: two tasks are listed, one done and one not yet marked.
ListShowsDoneAndNotDone ==
    LET out == get_tasks_with_done
    IN  \E i, j \in 1..Len(out) :
            /\ out[i].done
            /\ ~out[j].done
            /\ lastOk[out[j].id] = "none"

\* The step taken is request r answering a PUT /tasks/{id}.
Updates(r) ==
    /\ req[r].pc = "idle"
    /\ req'[r].op = "update"

\* C8: update on an id with no task is answered 404 and changes nothing; on
\* an existing id it is answered 200 and overwrites only that task's title:
\* ids, the other tasks, the Done rows and every done flag are unchanged, and
\* the list then shows the new title.
UpdateOverwritesOnlyTitle ==
    [][\A r \in Reqs :
          Updates(r) =>
             LET id == req'[r].task_id
                 before == get_tasks_with_done
                 after == get_tasks_with_done'
             IN  IF id \notin TaskIdsIn(tasks)
                 THEN /\ req'[r].status = HTTP_404_NOT_FOUND
                      /\ tasks' = tasks
                      /\ dones' = dones
                 ELSE /\ req'[r].status = HTTP_200_OK
                      /\ dones' = dones
                      /\ Len(after) = Len(before)
                      /\ \A i \in 1..Len(before) :
                            /\ after[i].id = before[i].id
                            /\ after[i].done = before[i].done
                            /\ after[i].title = IF before[i].id = id
                                                THEN req'[r].title
                                                ELSE before[i].title]_vars

\* C8 witness: an update of a marked task was answered 200 and the list shows
\* its new title next to another task with a different title.
UpdatedTitleListed ==
    LET out == get_tasks_with_done
    IN  \E r \in Reqs, i, j \in 1..Len(out) :
            /\ req[r].pc = "responded"
            /\ req[r].op = "update"
            /\ req[r].status = HTTP_200_OK
            /\ out[i].id = req[r].task_id
            /\ out[i].title = req[r].title
            /\ out[i].done
            /\ out[j].title # req[r].title

\* Request r is a mark on task_id whose lookup returned absent, i.e. it has
\* passed the `if done is not None` check.
PassedMarkCheck(r, task_id) ==
    /\ req[r].op = "mark"
    /\ req[r].task_id = task_id
    /\ req[r].done = None
    /\ req[r].pc \in {"decide", "responded"}

\* C9: when two mark requests on the same task_id have both passed the
\* precondition check, neither is turned away: each one's write step adds a
\* Done row for that task_id and is answered 200.
BothCheckedMarksCreate ==
    [][\A r, q \in Reqs :
          /\ r # q
          /\ Decides(r, "mark")
          /\ PassedMarkCheck(r, req[r].task_id)
          /\ PassedMarkCheck(q, req[r].task_id)
          => /\ req'[r].status = HTTP_200_OK
             /\ Cardinality(RowsIn(dones', req[r].task_id))
                   = Cardinality(RowsOf(req[r].task_id)) + 1]_vars

\* C9 witness: two concurrent marks on one task_id both passed the check and
\* both created a row.
BothMarksCreated ==
    \E r, q \in Reqs, t \in TaskIds :
        /\ r # q
        /\ PassedMarkCheck(r, t) /\ req[r].pc = "responded"
        /\ PassedMarkCheck(q, t) /\ req[q].pc = "responded"
        /\ req[r].status = HTTP_200_OK
        /\ req[q].status = HTTP_200_OK
        /\ Cardinality(RowsOf(t)) = 2

\* C10: a request decides on its own lookup: it has no response and has
\* written nothing before its lookup returned; a step that adds a Done row is
\* a mark whose lookup returned absent, a step that removes one is an unmark
\* whose lookup returned that marker, a 400 comes from a mark whose lookup
\* returned a marker and a 404 from an unmark whose lookup returned absent.
DecisionFollowsOwnLookup ==
    [][/\ \A r \in Reqs :
             /\ req[r].pc = "lookup" =>
                   /\ req[r].status = 0
                   /\ req'[r].pc \in {"lookup", "decide"}
                   /\ req'[r] # req[r] => dones' = dones
             /\ Decides(r, "mark") /\ req'[r].status = HTTP_400_BAD_REQUEST
                   => req[r].done # None
             /\ Decides(r, "unmark") /\ req'[r].status = HTTP_404_NOT_FOUND
                   => req[r].done = None
       /\ dones' \ dones # {} =>
             \E r \in Reqs : Decides(r, "mark") /\ req[r].done = None
       /\ dones \ dones' # {} =>
             \E r \in Reqs : Decides(r, "unmark") /\ dones \ dones' = {req[r].done}]_vars

\* C10 witness: a mark answered 400 on the marker it fetched although that
\* marker has since been removed, next to an unmark answered 200.
StaleConflictAnswered ==
    \E r, q \in Reqs :
        /\ req[r].pc = "responded"
        /\ req[r].op = "mark"
        /\ req[r].status = HTTP_400_BAD_REQUEST
        /\ req[r].done \notin dones
        /\ req[q].pc = "responded"
        /\ req[q].op = "unmark"
        /\ req[q].status = HTTP_200_OK
        /\ req[q].done = req[r].done

\* C11: mark does not look at the tasks table: a mark on a task_id that has
\* no Task row and whose lookup returned absent is answered 200 and adds a
\* Done row for that task_id.
MarkCreatesOrphanMarker ==
    [][\A r \in Reqs :
          /\ Decides(r, "mark")
          /\ req[r].done = None
          /\ req[r].task_id \notin TaskIdsIn(tasks)
          => /\ req'[r].status = HTTP_200_OK
             /\ \E d \in dones' \ dones : d.task_id = req[r].task_id]_vars

\* C11 witness: a mark was answered 200 and the done table holds a row for
\* its task_id although no task with that id was ever created.
OrphanMarkerCreated ==
    \E r \in Reqs :
        /\ req[r].pc = "responded"
        /\ req[r].op = "mark"
        /\ req[r].status = HTTP_200_OK
        /\ req[r].task_id \notin created
        /\ req[r].task_id \notin TaskIdsIn(tasks)
        /\ RowsOf(req[r].task_id) # {}

\* C12: an unmark answered 200 deletes the record its own lookup returned:
\* after the step that record is not in the store, and no other Done row has
\* been removed.
UnmarkDeletesFetchedRecord ==
    [][\A r \in Reqs :
          Decides(r, "unmark") /\ req'[r].status = HTTP_200_OK
              => /\ req[r].done \notin dones'
                 /\ dones \ dones' \subseteq {req[r].done}
                 /\ dones' \subseteq dones]_vars

\* C12 witness: an unmark was answered 200, the record it fetched is gone and
\* another Done row of the same task_id is still in the store.
UnmarkLeftOtherRow ==
    \E r \in Reqs :
        /\ req[r].pc = "responded"
        /\ req[r].op = "unmark"
        /\ req[r].status = HTTP_200_OK
        /\ req[r].done # None
        /\ req[r].done \notin dones
        /\ RowsOf(req[r].task_id) # {}

\* C13: the lookup result a request holds is never a bare integer, and every
\* 404 of an unmark carries the detail "Done not found", never the detail
\* that embeds the looked-up value.
UnmarkGuardIsDead ==
    \A r \in Reqs :
        /\ ~IsInt(req[r].done)
        /\ req[r].pc = "responded" /\ req[r].op = "unmark"
              /\ req[r].status = HTTP_404_NOT_FOUND
              => req[r].detail = DoneNotFound /\ req[r].detail # UnchiDetail

\* C13 witness: an unmark on a task_id that was never marked has been
\* answered 404 "Done not found".
UnmarkNeverMarkedNotFound ==
    \E r \in Reqs :
        /\ req[r].pc = "responded"
        /\ req[r].op = "unmark"
        /\ req[r].status = HTTP_404_NOT_FOUND
        /\ req[r].detail = DoneNotFound
        /\ lastOk[req[r].task_id] = "none"

\* The step taken is a step of done request r (begin excluded).
DoneStep(r) ==
    /\ req[r].op \in {"mark", "unmark"}
    /\ req'[r] # req[r]

\* C16: a step of a mark or unmark on task_id t leaves every Task row and
\* the Done rows of every other task_id unchanged; a mark removes no Done row
\* and an unmark creates none.
DoneRequestFrame ==
    [][\A r \in Reqs :
          DoneStep(r) =>
             /\ tasks' = tasks
             /\ \A u \in TaskIds \ {req[r].task_id} : RowsIn(dones', u) = RowsOf(u)
             /\ req[r].op = "mark" => dones \subseteq dones'
             /\ req[r].op = "unmark" => dones' \subseteq dones]_vars

\* C16 witness: a mark and an unmark were answered 200 on one task_id while
\* tasks exist and another task_id keeps its marker.
DoneRequestsBesideOtherMarker ==
    \E r, q \in Reqs, u \in TaskIds :
        /\ req[r].pc = "responded" /\ req[r].op = "unmark"
        /\ req[r].status = HTTP_200_OK
        /\ req[r].task_id # u
        /\ req[q].pc = "responded" /\ req[q].op = "mark"
        /\ req[q].status = HTTP_200_OK
        /\ req[q].task_id = req[r].task_id
        /\ RowsOf(u) # {}
        /\ Len(tasks) = MaxTasks

\* C17: two concurrent unmarks that fetched the same marker are never both
\* answered 200.
NoTwoUnmarksOfOneMarker ==
    \A r, q \in Reqs :
        /\ r # q
        /\ req[r].pc = "responded" /\ req[r].op = "unmark"
        /\ req[q].pc = "responded" /\ req[q].op = "unmark"
        /\ req[r].done # None
        /\ req[r].done = req[q].done
        => ~(req[r].status = HTTP_200_OK /\ req[q].status = HTTP_200_OK)


\* The session ids that can be open at once.
SessionIds == 1..NumReqs

\* Request r is being served.
Active(r) == req[r].pc # "idle"

\* C14: every request being served holds an open session of its own, no two
\* requests being served hold the same session, no session is open without a
\* request holding it, and the session a request holds is eventually
\* released, whatever the request is answered.
SessionPerRequest ==
    /\ [](\A r \in Reqs : Active(r) => req[r].db \in sessions)
    /\ [](\A r1, r2 \in Reqs :
            Active(r1) /\ Active(r2) /\ r1 # r2 => req[r1].db # req[r2].db)
    /\ [](sessions = {req[r].db : r \in {q \in Reqs : Active(q)}})
    /\ \A r \in Reqs, id \in SessionIds :
          (Active(r) /\ req[r].db = id) ~> (id \notin sessions)
    /\ \A r \in Reqs,
          st \in {HTTP_200_OK, HTTP_400_BAD_REQUEST, HTTP_404_NOT_FOUND} :
          (req[r].pc = "responded" /\ req[r].status = st) ~> ~Active(r)

\* Two requests are answered side by side, one 200 and one 400 or 404, each
\* holding an open session of its own.
TwoSessionsOpen ==
    \E r1, r2 \in Reqs :
        /\ req[r1].pc = "responded" /\ req[r1].status = HTTP_200_OK
        /\ req[r2].pc = "responded"
        /\ req[r2].status \in {HTTP_400_BAD_REQUEST, HTTP_404_NOT_FOUND}
        /\ req[r1].db # req[r2].db
        /\ {req[r1].db, req[r2].db} \subseteq sessions

\* The positions of a request, in the order it goes through them.
PcRank(pc) ==
    CASE pc = "idle" -> 0
      [] pc = "lookup" -> 1
      [] pc = "decide" -> 2
      [] pc = "responded" -> 3

\* C15: a mark or unmark request that has entered its handler is eventually
\* answered; it only moves forward (no retry), an answer is never replaced by
\* another, and at its answer it has issued one lookup and at most one write,
\* a mark being answered 200 or 400 and an unmark 200 or 404.
DoneRequestsTerminate ==
    /\ \A r \in Reqs :
          (req[r].pc \in {"lookup", "decide"}) ~> (req[r].pc = "responded")
    /\ [][\A r \in Reqs :
             /\ req[r].op \in {"mark", "unmark"} /\ req'[r] # req[r]
                  => \/ PcRank(req'[r].pc) = PcRank(req[r].pc) + 1
                     \/ req[r].pc = "responded" /\ req'[r] = Idle
             /\ req'[r].lookups \in {0, req[r].lookups, req[r].lookups + 1}
             /\ req'[r].writes \in {0, req[r].writes, req[r].writes + 1}]_vars
    /\ [](\A r \in Reqs :
            req[r].pc = "responded" /\ req[r].op \in {"mark", "unmark"}
               => /\ req[r].lookups = 1
                  /\ req[r].writes <= 1
                  /\ req[r].writes = 1 => req[r].status = HTTP_200_OK
                  /\ req[r].op = "mark"
                        => req[r].status \in {HTTP_200_OK, HTTP_400_BAD_REQUEST}
                  /\ req[r].op = "unmark"
                        => req[r].status \in {HTTP_200_OK, HTTP_404_NOT_FOUND})

\* A mark is answered 200 after one lookup and one write beside an unmark
\* answered 404 after one lookup and no write.
MarkAndUnmarkAnswered ==
    \E r1, r2 \in Reqs :
        /\ req[r1].pc = "responded" /\ req[r1].op = "mark"
        /\ req[r1].status = HTTP_200_OK
        /\ req[r1].lookups = 1 /\ req[r1].writes = 1
        /\ req[r2].pc = "responded" /\ req[r2].op = "unmark"
        /\ req[r2].status = HTTP_404_NOT_FOUND
        /\ req[r2].lookups = 1 /\ req[r2].writes = 0

====
